---- MODULE Spec2Model ----
(***************************************************************************)
(* Model of mia/datasets.py: the dataset base class with its array cache   *)
(* (DatasetFiles, load, save), the dataset variants' external-load hooks,  *)
(* the global seed and the train/test split.                               *)
(*                                                                         *)
(* An array is a record [shape, data]: shape is numpy's shape tuple and    *)
(* data holds one entry per row (index along axis 0), the entry standing   *)
(* for the whole content of that row.  Dataset sizes are scaled down to    *)
(* Size rows; the proportions train_size/size of the variants are kept.    *)
(***************************************************************************)
EXTENDS Integers, Sequences, FiniteSets, TLC

VARIABLES
    seed,        \* the module global `seed`
    seedWasSet,  \* history: set_seed has been called at least once
    fs,          \* the file system below ../data: path -> file content
    subject,     \* the constructor call (class, arguments) this run uses
    self,        \* the dataset object of the run (features, labels), if any
    last,        \* the call that ended last: arguments, outcome, return value
    pinned,      \* history: one earlier split call, kept for comparison
    origin,      \* history: the arrays of the construction that filled the
                 \* cache, while the cache files are the ones it wrote
    rng          \* the generator the last randomized split made, as the
                 \* split left it

vars == <<seed, seedWasSet, fs, subject, self, last, pinned, origin, rng>>

---------------------------------------------------------------------------
(* Bounds and program constants                                            *)

\* rows of every scaled-down dataset (197324 and 60000 in the source)
Size == 4

\* seed: int = 1234
DefaultSeed == 1234

LABELS_PER_DATA_POINT == 1

\* values given to set_seed
Seeds == {DefaultSeed, 1, 2}

\* numberOfClusters arguments given to KagglePurchaseDatasetClustered
ClusterCounts == {2, 5}

---------------------------------------------------------------------------
(* numpy arrays                                                            *)

\* np.zeros(shape)
Zeros(shape) == [shape |-> shape, data |-> [i \in 1..shape[1] |-> 0]]

\* a[indices] for a 0-based index sequence: the rows in the order of indices
Take(a, indices) ==
    [shape |-> [a.shape EXCEPT ![1] = Len(indices)],
     data |-> [i \in 1..Len(indices) |-> a.data[indices[i] + 1]]]

\* np.append(a, b, axis=0)
Append0(a, b) ==
    [shape |-> [a.shape EXCEPT ![1] = a.shape[1] + b.shape[1]],
     data |-> a.data \o b.data]

\* np.arange(n)
Arange(n) == [i \in 1..n |-> i - 1]

Range(s) == {s[i] : i \in 1..Len(s)}

\* the elements of a finite set of integers in ascending order
RECURSIVE SortedSeq(_)
SortedSeq(S) ==
    IF S = {} THEN <<>>
    ELSE LET m == CHOOSE x \in S : \A y \in S : x <= y
         IN <<m>> \o SortedSeq(S \ {m})

\* np.sort(a)
Sort(s) == SortedSeq(Range(s))

\* np.setdiff1d(a, b): the sorted unique values of a that are not in b
Setdiff1d(a, b) == SortedSeq(Range(a) \ Range(b))

\* the i-th element (1-based) removed from a sequence
RemoveAt(s, i) == [j \in 1..(Len(s) - 1) |-> IF j < i THEN s[j] ELSE s[j + 1]]

\* One step of the generator's state.
RngStep(state) == (state * 75 + 74) % 65537

\* rng.choice(pool, k, replace=False) for the generator in state `state`:
\* k draws from the pool, each drawn element leaving the pool.
RECURSIVE Draw(_, _, _)
Draw(state, pool, k) ==
    IF k = 0 \/ pool = <<>> THEN <<>>
    ELSE LET next == RngStep(state)
             pos == (next % Len(pool)) + 1
         IN <<pool[pos]>> \o Draw(next, RemoveAt(pool, pos), k - 1)

\* the generator's state after k draws
RECURSIVE Advance(_, _)
Advance(state, k) == IF k = 0 THEN state ELSE Advance(RngStep(state), k - 1)

NoGenerator == [made |-> FALSE]
Generator(state) == [made |-> TRUE, state |-> state]

\* a generator that is the one an earlier call made, when there is one
default_rng_shared(s, earlier) ==
    IF earlier.made THEN earlier ELSE Generator(s % 65537)

\* np.random.default_rng(seed): a new generator seeded with s, whatever
\* generator an earlier call made
default_rng(s, earlier) == Generator(s % 65537)

\* generator.choice(allIndices, k, replace=False)
Choice(generator, allIndices, k) == Draw(generator.state, allIndices, k)

---------------------------------------------------------------------------
(* The file system below the data directory                                *)

Absent == [kind |-> "absent"]
Directory == [kind |-> "dir"]

\* os.path.join
join(a, b) == a \o "/" \o b

\* dirname(__file__)
currentDirectoryName == "mia"

\* DatasetFiles.__init__: the three paths of a dataset name
DatasetFiles(datasetName) ==
    LET dataDirectory == join(currentDirectoryName, "../data/" \o datasetName)
    IN [dataDirectory |-> dataDirectory,
        numpyFeatures |-> join(dataDirectory, "features.npy"),
        numpyLabels |-> join(dataDirectory, "labels.npy")]

\* os.path.exists, os.path.isfile, os.mkdir
exists(f, path) == f[path].kind # "absent"
isfile(f, path) == f[path].kind \in {"npy", "raw"}
mkdir(f, path) == [f EXCEPT ![path] = Directory]

\* np.save(path, a): the .npy file holds the array's shape and its data
NpySave(f, path, a) ==
    [f EXCEPT ![path] = [kind |-> "npy", shape |-> a.shape, data |-> a.data]]

\* np.load(path): the array of the shape and data the file holds
NpyLoad(f, path) == [shape |-> f[path].shape, data |-> f[path].data]

---------------------------------------------------------------------------
(* The dataset classes and their class attributes                          *)

BaseClass == "DatasetBaseClass"
KaggleClass == "KagglePurchaseDataset"
ClusteredClass == "KagglePurchaseDatasetClustered"
Cifar10Class == "Cifar10Dataset"
Cifar100Class == "Cifar100Dataset"
\* a subclass that overrides nothing, and one that supplies a hook of its own
PlainSubclass == "PlainSubclass"
CustomClass == "CustomDataset"

Classes == {BaseClass, KaggleClass, ClusteredClass, Cifar10Class,
            Cifar100Class, PlainSubclass, CustomClass}

\* the constructor calls: the class and its numberOfClusters argument
Ctor(cls, k) == [cls |-> cls, numberOfClusters |-> k]
Ctors == {Ctor(c, 0) : c \in Classes \ {ClusteredClass}}
         \cup {Ctor(ClusteredClass, k) : k \in ClusterCounts}

\* str(numberOfClusters)
str(k) == CASE k = 2 -> "2" [] k = 5 -> "5" [] OTHER -> "n"

\* the class attribute `size` (scaled to Size rows for the real datasets)
size(cls) == IF cls \in {BaseClass, PlainSubclass} THEN 1 ELSE Size

\* the class attribute `train_size`
train_size(cls) ==
    CASE cls \in {BaseClass, PlainSubclass} -> 1
      [] cls \in {KaggleClass, ClusteredClass} -> Size \div 4
      [] cls \in {Cifar10Class, Cifar100Class} -> Size - 1
      [] OTHER -> Size \div 2

\* the class attribute `dataDimensions`
dataDimensions(cls) ==
    CASE cls \in {BaseClass, PlainSubclass} -> <<1>>
      [] cls \in {KaggleClass, ClusteredClass} -> <<600>>
      [] cls \in {Cifar10Class, Cifar100Class} -> <<32, 32, 3>>
      [] OTHER -> <<2, 2>>

\* the attribute `datasetName` of an object built by the constructor call
datasetName(ctor) ==
    CASE ctor.cls \in {BaseClass, PlainSubclass} -> "default"
      [] ctor.cls = KaggleClass -> "kaggle"
      [] ctor.cls = ClusteredClass ->
            "kaggle_clustered_" \o str(ctor.numberOfClusters)
      [] ctor.cls = Cifar10Class -> "cifar10"
      [] ctor.cls = Cifar100Class -> "cifar100"
      [] OTHER -> "custom"

RawDataPath == join(DatasetFiles("kaggle").dataDirectory, "raw_data")

\* the paths a constructor call can touch: those of its dataset name and,
\* for the Kaggle classes, those of the Kaggle data it is derived from
NamePaths(name) ==
    {DatasetFiles(name).dataDirectory,
     DatasetFiles(name).numpyFeatures,
     DatasetFiles(name).numpyLabels}
Paths(ctor) ==
    NamePaths(datasetName(ctor))
    \cup (IF ctor.cls \in {KaggleClass, ClusteredClass}
          THEN NamePaths("kaggle") \cup {RawDataPath} ELSE {})

---------------------------------------------------------------------------
(* The external sources of the variants                                    *)

\* The raw text file of the Kaggle data: one record per row, the first
\* column the label, the other columns the features.
RawDataFile ==
    [kind |-> "raw",
     rows |-> [i \in 1..Size |-> [label |-> 1 + (i % 3), columns |-> 100 + i]]]

\* the training rows of the CIFAR data (50000 of its 60000 rows)
CifarTrainRows == Size - 1

\* tf.keras.datasets.cifar10.load_data() and cifar100.load_data(): the
\* service's own split into training rows and test rows of 32x32x3 images
load_data(cls) ==
    LET n == CifarTrainRows
        m == Size - CifarTrainRows
        base == IF cls = Cifar10Class THEN 1000 ELSE 2000
    IN [x_train |-> [shape |-> <<n, 32, 32, 3>>,
                     data |-> [i \in 1..n |-> base + i]],
        y_train |-> [shape |-> <<n, 1>>,
                     data |-> [i \in 1..n |-> 1 + (i % 3)]],
        x_test |-> [shape |-> <<m, 32, 32, 3>>,
                    data |-> [i \in 1..m |-> base + 500 + i]],
        y_test |-> [shape |-> <<m, 1>>,
                    data |-> [i \in 1..m |-> 2 + (i % 3)]]]

\* What the hook of a class may meet: the run of MiniBatchKMeans (it is not
\* seeded), the behaviour of a custom hook.
HookChoices(cls) ==
    CASE cls = ClusteredClass -> {"kmeans_a", "kmeans_b"}
      [] cls = CustomClass -> {"populates", "reshapes", "raises"}
      [] OTHER -> {"-"}

\* kmeans.fit_predict(features): one cluster index per row, shape (n,)
fit_predict(features, n_clusters, h) ==
    LET n == features.shape[1]
        off == IF h = "kmeans_a" THEN 0 ELSE 1
    IN [shape |-> <<n>>, data |-> [i \in 1..n |-> (i + off) % n_clusters]]

---------------------------------------------------------------------------
(* DatasetBaseClass and its subclasses                                     *)

\* The result of a call on an object: the object, the file system, the
\* exception raised ("" for none) and the methods of the object called, in
\* the order of the calls ("load_external:raised" when the hook raised).
Result(o, f, raised, calls) ==
    [o |-> o, f |-> f, raised |-> raised, calls |-> calls]

\* DatasetBaseClass.load_external
load_external_base(o, f) == Result(o, f, "NotImplementedError", <<>>)

\* KagglePurchaseDataset.load_raw_data_from_file
load_raw_data_from_file(o, f) ==
    LET rawData == join(o.files.dataDirectory, "raw_data")
    IN IF ~isfile(f, rawData) THEN Result(o, f, "AssertionError", <<>>)
       ELSE LET rows == f[rawData].rows
                n == o.labels.shape[1]
            IN IF Len(rows) > n THEN Result(o, f, "IndexError", <<>>)
               ELSE Result(
                      [o EXCEPT
                         !.labels.data =
                            [i \in 1..n |-> IF i <= Len(rows)
                                            THEN rows[i].label ELSE @[i]],
                         !.features.data =
                            [i \in 1..n |-> IF i <= Len(rows)
                                            THEN rows[i].columns ELSE @[i]]],
                      f, "", <<>>)

\* load_from_tensorflow appending the training rows to the test rows
load_from_tensorflow_test_first(o, f) ==
    LET d == load_data(o.cls)
    IN Result([o EXCEPT !.features = Append0(d.x_test, d.x_train),
                        !.labels = Append0(d.y_test, d.y_train)],
              f, "", <<>>)

\* Cifar10Dataset.load_from_tensorflow, Cifar100Dataset.load_from_tensorflow
load_from_tensorflow(o, f) ==
    LET d == load_data(o.cls)
    IN Result([o EXCEPT !.features = Append0(d.x_train, d.x_test),
                        !.labels = Append0(d.y_train, d.y_test)],
              f, "", <<>>)

\* the hook of the custom subclass: it fills the arrays, or replaces
\* features by an array with the records flattened, or raises
load_external_custom(o, f, h) ==
    LET n == o.features.shape[1]
        filled == [o EXCEPT !.features.data = [i \in 1..n |-> 3000 + i],
                            !.labels.data = [i \in 1..n |-> 1 + (i % 2)]]
    IN CASE h = "raises" -> Result(o, f, "RuntimeError", <<>>)
         [] h = "reshapes" ->
              Result([filled EXCEPT !.features.shape = <<n, 4>>], f, "", <<>>)
         [] OTHER -> Result(filled, f, "", <<>>)

RECURSIVE Construct(_, _, _)

\* KagglePurchaseDatasetClustered.load_external
load_external_clustered(o, f, h) ==
    LET kaggle_unclustered == Construct(Ctor(KaggleClass, 0), f, "-")
    IN IF kaggle_unclustered.raised # ""
       THEN Result(o, kaggle_unclustered.f, kaggle_unclustered.raised, <<>>)
       ELSE LET features == kaggle_unclustered.o.features
            IN Result([o EXCEPT
                         !.features = features,
                         !.labels = fit_predict(features, o.numberOfClusters, h)],
                      kaggle_unclustered.f, "", <<>>)

\* self.load_external(), dispatched on the class of the object
load_external(o, f, h) ==
    CASE o.cls = KaggleClass -> load_raw_data_from_file(o, f)
      [] o.cls = ClusteredClass -> load_external_clustered(o, f, h)
      [] o.cls \in {Cifar10Class, Cifar100Class} -> load_from_tensorflow(o, f)
      [] o.cls = CustomClass -> load_external_custom(o, f, h)
      [] OTHER -> load_external_base(o, f)

\* load_numpy_from_file reading the labels from the features file
load_numpy_from_file_features_twice(o, f) ==
    IF ~isfile(f, o.files.numpyFeatures) \/ ~isfile(f, o.files.numpyLabels)
    THEN Result(o, f, "FileNotFoundError", <<>>)
    ELSE Result([o EXCEPT !.features = NpyLoad(f, o.files.numpyFeatures),
                          !.labels = NpyLoad(f, o.files.numpyFeatures)],
                f, "", <<>>)

\* DatasetBaseClass.load_numpy_from_file (np.load raises FileNotFoundError
\* for a path that names no file)
load_numpy_from_file(o, f) ==
    IF ~isfile(f, o.files.numpyFeatures) \/ ~isfile(f, o.files.numpyLabels)
    THEN Result(o, f, "FileNotFoundError", <<>>)
    ELSE Result([o EXCEPT !.features = NpyLoad(f, o.files.numpyFeatures),
                          !.labels = NpyLoad(f, o.files.numpyLabels)],
                f, "", <<>>)

\* DatasetBaseClass.save
save(o, f) ==
    LET f1 == IF ~exists(f, o.files.dataDirectory)
              THEN mkdir(f, o.files.dataDirectory) ELSE f
        f2 == NpySave(f1, o.files.numpyFeatures, o.features)
    IN Result(o, NpySave(f2, o.files.numpyLabels, o.labels), "", <<>>)

\* load taking one cache file for a valid cache
loadEitherFile(o, f, h) ==
    IF exists(f, o.files.numpyFeatures) \/ exists(f, o.files.numpyLabels)
    THEN LET r == load_numpy_from_file(o, f)
         IN Result(r.o, r.f, r.raised, <<"load_numpy_from_file">>)
    ELSE LET r == load_external(o, f, h)
         IN IF r.raised # ""
            THEN Result(r.o, r.f, r.raised,
                        <<"load_external", "load_external:raised">>)
            ELSE LET s == save(r.o, r.f)
                 IN Result(s.o, s.f, s.raised, <<"load_external", "save">>)

\* DatasetBaseClass.load
load(o, f, h) ==
    IF exists(f, o.files.numpyFeatures) /\ exists(f, o.files.numpyLabels)
    THEN LET r == load_numpy_from_file(o, f)
         IN Result(r.o, r.f, r.raised, <<"load_numpy_from_file">>)
    ELSE LET r == load_external(o, f, h)
         IN IF r.raised # ""
            THEN Result(r.o, r.f, r.raised,
                        <<"load_external", "load_external:raised">>)
            ELSE LET s == save(r.o, r.f)
                 IN Result(s.o, s.f, s.raised, <<"load_external", "save">>)

\* the shape check that ends DatasetBaseClass.__init__
ShapeAsserted(features, featuresArrayShape) ==
    features.shape = featuresArrayShape

\* The constructor call ctor on file system f with hook choice h:
\* the subclass's __init__ and DatasetBaseClass.__init__.
Construct(ctor, f, h) ==
    IF ctor.cls = BaseClass THEN Result(ctor, f, "AssertionError", <<>>)
    ELSE LET labelsArrayShape == <<size(ctor.cls), LABELS_PER_DATA_POINT>>
             featuresArrayShape == <<size(ctor.cls)>> \o dataDimensions(ctor.cls)
             o == [cls |-> ctor.cls,
                   numberOfClusters |-> ctor.numberOfClusters,
                   datasetName |-> datasetName(ctor),
                   files |-> DatasetFiles(datasetName(ctor)),
                   labels |-> Zeros(labelsArrayShape),
                   features |-> Zeros(featuresArrayShape)]
             r == load(o, f, h)
         IN IF r.raised = "" /\ ~ShapeAsserted(r.o.features, featuresArrayShape)
            THEN Result(r.o, r.f, "AssertionError", r.calls)
            ELSE r

---------------------------------------------------------------------------
(* DatasetBaseClass.split                                                  *)

\* the train_size argument: None, or an integer
NoneArg == [given |-> FALSE, value |-> 0]
IntArg(n) == [given |-> TRUE, value |-> n]
TrainSizeArgs == {NoneArg} \cup {IntArg(n) : n \in 0..(Size + 1)}

\* `if train_size is None: train_size = self.train_size`
EffectiveTrainSize(o, arg) ==
    IF ~arg.given THEN train_size(o.cls) ELSE arg.value

\* the check off by one
TrainSizeRejectedOffByOne(o, t) == t > size(o.cls) + 1

\* `if train_size > self.size: raise ValueError`
TrainSizeRejected(o, t) == t > size(o.cls)

\* trainIndices, in either mode; earlier is the generator an earlier call
\* left behind
TrainIndices(o, s, earlier, random) ==
    IF random
    THEN LET generator == default_rng(s, earlier)
             randomIndices ==
                 Choice(generator, Arange(size(o.cls)), train_size(o.cls))
         IN Sort(randomIndices)
    ELSE Arange(train_size(o.cls))

\* the generator a split call leaves behind
GeneratorLeft(o, s, earlier, random) ==
    IF random
    THEN Generator(Advance(default_rng(s, earlier).state, train_size(o.cls)))
    ELSE earlier

\* testIndices taken as the indices after the first len(trainIndices)
TestIndicesTail(allIndices, trainIndices) ==
    [i \in 1..(Len(allIndices) - Len(trainIndices)) |->
        allIndices[Len(trainIndices) + i]]

\* testIndices
TestIndices(allIndices, trainIndices) == Setdiff1d(allIndices, trainIndices)

\* the value split returns, with the index arrays it was built from
Partitions(o, trainIndices, testIndices) ==
    [trainIndices |-> trainIndices,
     testIndices |-> testIndices,
     x_train |-> Take(o.features, trainIndices),
     y_train |-> Take(o.labels, trainIndices),
     x_test |-> Take(o.features, testIndices),
     y_test |-> Take(o.labels, testIndices)]

\* o.split(train_size=arg, random=random) while the global seed is s
split(o, s, earlier, arg, random) ==
    LET t == EffectiveTrainSize(o, arg)
    IN IF TrainSizeRejected(o, t)
       THEN [raised |-> "ValueError", indexed |-> FALSE]
       ELSE LET allIndices == Arange(size(o.cls))
                trainIndices == TrainIndices(o, s, earlier, random)
                testIndices == TestIndices(allIndices, trainIndices)
            IN [raised |-> "", indexed |-> TRUE,
                ret |-> Partitions(o, trainIndices, testIndices)]

---------------------------------------------------------------------------
(* The state machine                                                       *)

NoObject == [cls |-> "None"]

Init ==
    /\ seed = DefaultSeed
    /\ seedWasSet = FALSE
    /\ subject \in Ctors
    /\ fs = [p \in Paths(subject) |-> Absent]
    /\ self = NoObject
    /\ last = [op |-> "start"]
    /\ pinned = [set |-> FALSE]
    /\ origin = [set |-> FALSE]
    /\ rng = NoGenerator

\* set_seed(new_seed)
SetSeed(new_seed) ==
    /\ seed' = new_seed
    /\ seedWasSet' = TRUE
    /\ last' = [op |-> "set_seed", new_seed |-> new_seed]
    /\ pinned' = IF pinned.set THEN [pinned EXCEPT !.reseeded = TRUE] ELSE pinned
    /\ UNCHANGED <<fs, subject, self, origin, rng>>

\* set_up.py has put the raw Kaggle data into the data directory
SetUp ==
    /\ subject.cls \in {KaggleClass, ClusteredClass}
    /\ ~exists(fs, RawDataPath)
    /\ fs' = [mkdir(fs, DatasetFiles("kaggle").dataDirectory)
                EXCEPT ![RawDataPath] = RawDataFile]
    /\ last' = [op |-> "set_up"]
    /\ UNCHANGED <<seed, seedWasSet, subject, self, pinned, origin, rng>>

\* a cache file is removed from outside the program
RemoveFile(path) ==
    /\ fs[path].kind = "npy"
    /\ fs' = [fs EXCEPT ![path] = Absent]
    /\ last' = [op |-> "remove", path |-> path]
    /\ origin' = IF path \in NamePaths(datasetName(subject))
                 THEN [set |-> FALSE] ELSE origin
    /\ UNCHANGED <<seed, seedWasSet, subject, self, pinned, rng>>

\* self = <subject class>(...): the object replaces the run's object when
\* the constructor returns, and the exception propagates when it raises
ConstructCall(h) ==
    LET r == Construct(subject, fs, h)
    IN /\ fs' = r.f
       /\ self' = IF r.raised = "" THEN r.o ELSE self
       /\ last' = [op |-> "construct", raised |-> r.raised, calls |-> r.calls,
                   o |-> r.o, before |-> fs]
       /\ origin' = IF r.raised = "" /\ r.calls = <<"load_external", "save">>
                    THEN [set |-> TRUE, features |-> r.o.features,
                          labels |-> r.o.labels]
                    ELSE origin
       /\ UNCHANGED <<seed, seedWasSet, subject, pinned, rng>>

\* the record of self.split(train_size=arg, random=random)
SplitRecord(arg, random) ==
    [op |-> "split", train_size |-> arg, random |-> random, seed |-> seed,
     result |-> split(self, seed, rng, arg, random)]

\* the generator after self.split(train_size=arg, random=random)
RngAfterSplit(arg, random) ==
    IF TrainSizeRejected(self, EffectiveTrainSize(self, arg)) THEN rng
    ELSE GeneratorLeft(self, seed, rng, random)

\* self.split(train_size=arg, random=random)
SplitCall(arg, random) ==
    /\ self # NoObject
    /\ last' = SplitRecord(arg, random)
    /\ rng' = RngAfterSplit(arg, random)
    /\ UNCHANGED <<seed, seedWasSet, fs, subject, self, pinned, origin>>

\* the same call, kept in `pinned` with the object it was made on (one call
\* of a run is kept)
SplitCallPinned(arg, random) ==
    /\ self # NoObject
    /\ ~pinned.set
    /\ last' = SplitRecord(arg, random)
    /\ pinned' = [set |-> TRUE, call |-> SplitRecord(arg, random), on |-> self,
                  reseeded |-> FALSE]
    /\ rng' = RngAfterSplit(arg, random)
    /\ UNCHANGED <<seed, seedWasSet, fs, subject, self, origin>>

Next ==
    \/ \E s \in Seeds : SetSeed(s)
    \/ SetUp
    \/ \E path \in Paths(subject) : RemoveFile(path)
    \/ \E h \in HookChoices(subject.cls) : ConstructCall(h)
    \/ \E arg \in TrainSizeArgs, random \in BOOLEAN : SplitCall(arg, random)

Spec == Init /\ [][Next]_vars

\* The runs that compare two split calls.
NextSeed ==
    \/ \E s \in Seeds : SetSeed(s)
    \/ SetUp
    \/ \E h \in HookChoices(subject.cls) : ConstructCall(h)
    \/ \E arg \in TrainSizeArgs, random \in BOOLEAN : SplitCall(arg, random)
    \/ \E arg \in TrainSizeArgs, random \in BOOLEAN : SplitCallPinned(arg, random)

SpecSeed == Init /\ [][NextSeed]_vars

---------------------------------------------------------------------------
(* Properties                                                              *)

\* the sequence a, a+1, ..., b
Upto(a, b) == [i \in 1..(b - a + 1) |-> a + i - 1]

StrictlyAscending(s) == \A i \in 1..(Len(s) - 1) : s[i] < s[i + 1]

\* the train_size a split call asks for: its argument, else the declared one
Requested == IF last.train_size.given THEN last.train_size.value
             ELSE train_size(self.cls)

SplitReturned == last.op = "split" /\ last.result.raised = ""

\* rows of `part` are the rows of `whole` at `indices`, in that order
RowsAt(part, whole, indices) ==
    /\ part.shape = [whole.shape EXCEPT ![1] = Len(indices)]
    /\ Len(part.data) = Len(indices)
    /\ \A i \in 1..Len(indices) : part.data[i] = whole.data[indices[i] + 1]

\* C1: a deterministic split with requested train size t <= size returns
\* as training rows the rows 0..t-1 and as test rows the rows t..size-1,
\* each in that order.
C1_DeterministicSplit ==
    (last.op = "split" /\ ~last.random /\ Requested <= size(self.cls)) =>
        /\ last.result.raised = ""
        /\ LET ret == last.result.ret
               train == Upto(0, Requested - 1)
               test == Upto(Requested, size(self.cls) - 1)
           IN /\ RowsAt(ret.x_train, self.features, train)
              /\ RowsAt(ret.y_train, self.labels, train)
              /\ RowsAt(ret.x_test, self.features, test)
              /\ RowsAt(ret.y_test, self.labels, test)

\* C2: a randomized split with requested train size t <= size uses t
\* pairwise distinct training indices of 0..size-1 in strictly ascending
\* order, and as test indices the other size - t indices in ascending order.
C2_RandomizedSplit ==
    (last.op = "split" /\ last.random /\ Requested <= size(self.cls)) =>
        /\ last.result.raised = ""
        /\ LET ret == last.result.ret
               all == 0..(size(self.cls) - 1)
           IN /\ Len(ret.trainIndices) = Requested
              /\ Range(ret.trainIndices) \subseteq all
              /\ StrictlyAscending(ret.trainIndices)
              /\ Len(ret.testIndices) = size(self.cls) - Requested
              /\ Range(ret.testIndices) = all \ Range(ret.trainIndices)
              /\ StrictlyAscending(ret.testIndices)

C4_InvalidTrainSize ==
    [][(last'.op = "split" /\ last'.train_size.given
          /\ last'.train_size.value > size(self.cls)) =>
            /\ last'.result.raised = "ValueError"
            /\ ~last'.result.indexed
            /\ "ret" \notin DOMAIN last'.result
            /\ self' = self /\ seed' = seed /\ fs' = fs]_vars

\* a randomized split call with train_size = size + 1 has raised
C4_Witness ==
    /\ last.op = "split" /\ last.random
    /\ last.train_size = IntArg(size(self.cls) + 1)
    /\ last.result.raised = "ValueError"

\* the cache files of the run's dataset name
SubjectFiles == DatasetFiles(datasetName(subject))

\* both cache files existed when the last constructor call began
CacheWasValid ==
    /\ exists(last.before, SubjectFiles.numpyFeatures)
    /\ exists(last.before, SubjectFiles.numpyLabels)

Occurrences(s, x) == Cardinality({i \in 1..Len(s) : s[i] = x})

\* C5: a construction of a concrete dataset reads both cache files, calling
\* neither the hook nor save, when both files exist; in every other cache
\* state it calls the hook exactly once and, when the hook returns, calls
\* save after it, which leaves the directory and both cache files in place,
\* holding the object's arrays.
C5_LoadPathSelection ==
    (last.op = "construct" /\ subject.cls # BaseClass) =>
        IF CacheWasValid
        THEN /\ last.calls = <<"load_numpy_from_file">>
             /\ last.o.features = NpyLoad(last.before, SubjectFiles.numpyFeatures)
             /\ last.o.labels = NpyLoad(last.before, SubjectFiles.numpyLabels)
             /\ fs = last.before
        ELSE /\ Len(last.calls) = 2
             /\ last.calls[1] = "load_external"
             /\ Occurrences(last.calls, "load_external") = 1
             /\ Occurrences(last.calls, "load_numpy_from_file") = 0
             /\ \/ /\ last.calls[2] = "load_external:raised"
                   /\ last.raised # ""
                \/ /\ last.calls[2] = "save"
                   /\ fs[SubjectFiles.dataDirectory] = Directory
                   /\ isfile(fs, SubjectFiles.numpyFeatures)
                   /\ isfile(fs, SubjectFiles.numpyLabels)
                   /\ NpyLoad(fs, SubjectFiles.numpyFeatures) = last.o.features
                   /\ NpyLoad(fs, SubjectFiles.numpyLabels) = last.o.labels

\* a construction that met only the features file has called the hook and
\* then save
C5_Witness ==
    /\ last.op = "construct"
    /\ exists(last.before, SubjectFiles.numpyFeatures)
    /\ ~exists(last.before, SubjectFiles.numpyLabels)
    /\ last.calls = <<"load_external", "save">>
    /\ last.raised = ""

\* C6: after a successful construction that met no valid cache (external
\* load, then save), and as long as nothing has written to or removed the
\* cache files of that name, every construction of the same name loads from
\* the cache and ends with features and labels equal, in shape and content,
\* to those of that first construction.
C6_CacheRoundTrip ==
    [][(origin.set /\ last'.op = "construct") =>
            /\ last'.raised = ""
            /\ last'.calls = <<"load_numpy_from_file">>
            /\ self'.features = origin.features
            /\ self'.labels = origin.labels
            /\ origin' = origin]_vars

\* a construction has loaded, from the cache, arrays that are not zero and
\* that an earlier construction of the same name obtained from its hook
C6_Witness ==
    /\ last.op = "construct" /\ last.raised = ""
    /\ last.calls = <<"load_numpy_from_file">>
    /\ origin.set
    /\ self.features = origin.features /\ self.labels = origin.labels
    /\ \E i \in 1..Len(self.labels.data) : self.labels.data[i] # 0
    /\ \E i \in 1..Len(self.features.data) : self.features.data[i] # 0

SupportedClasses == {KaggleClass, ClusteredClass, Cifar10Class, Cifar100Class}

\* C7: when the construction of a supported variant completes without
\* error, on either load path, features.shape = [size] + dataDimensions and
\* labels.shape = [size, 1].
C7_ShapePostCondition ==
    (last.op = "construct" /\ last.raised = ""
        /\ subject.cls \in SupportedClasses) =>
        /\ self.features.shape = <<size(self.cls)>> \o dataDimensions(self.cls)
        /\ self.labels.shape = <<size(self.cls), 1>>

\* C8: the seed is 1234 until set_seed is called; two split calls on one
\* object with the same arguments return the same partitions when the seed
\* has the same value at both calls, whatever was called in between, and
\* two deterministic split calls with the same arguments return the same
\* partitions whatever the seed is at either call.
C8_SplitDeterminism ==
    /\ ~seedWasSet => seed = DefaultSeed
    /\ (last.op = "split" /\ pinned.set /\ pinned.on = self
          /\ pinned.call.train_size = last.train_size
          /\ pinned.call.random = last.random) =>
            /\ pinned.call.seed = last.seed => pinned.call.result = last.result
            /\ ~last.random => pinned.call.result = last.result

\* a randomized split has returned the partitions of an earlier call with
\* the same arguments, set_seed having been called in between and the seed
\* being again the one of the earlier call, not the default
C8_Witness ==
    /\ SplitReturned /\ last.random
    /\ pinned.set /\ pinned.on = self /\ pinned.reseeded
    /\ pinned.call.train_size = last.train_size
    /\ pinned.call.random = last.random
    /\ pinned.call.seed = last.seed /\ last.seed # DefaultSeed
    /\ pinned.call.result = last.result
    /\ last.result.ret.trainIndices
          # Upto(0, Len(last.result.ret.trainIndices) - 1)

\* C9: on an image dataset the deterministic split with the default
\* train_size returns the four arrays the service returned, row for row.
C9_SplitEquivalence ==
    (last.op = "split" /\ self.cls \in {Cifar10Class, Cifar100Class}
        /\ ~last.random /\ ~last.train_size.given) =>
        /\ last.result.raised = ""
        /\ last.result.ret.x_train = load_data(self.cls).x_train
        /\ last.result.ret.y_train = load_data(self.cls).y_train
        /\ last.result.ret.x_test = load_data(self.cls).x_test
        /\ last.result.ret.y_test = load_data(self.cls).y_test

\* split() has returned on a CIFAR-100 object
C9_Witness ==
    /\ SplitReturned /\ self.cls = Cifar100Class
    /\ ~last.random /\ ~last.train_size.given
    /\ last.result.ret.x_train.shape[1] > 0
    /\ last.result.ret.x_test.shape[1] > 0

\* C10: a construction that fails leaves the directory and the cache files
\* of its dataset name as they were before it.
C10_NoPartialSuccess ==
    (last.op = "construct" /\ last.raised # "") =>
        \A path \in NamePaths(datasetName(subject)) :
            fs[path] = last.before[path]

====
